---- MODULE Spec2Model ----
(***************************************************************************)
(* A model of yk0n9/conv: the model store (config.rs, Model::download),    *)
(* the transcription engine and the subtitle renderers (whisper.rs), the   *)
(* transcription and merge tasks of the application (utils.rs) and the     *)
(* triggers of its window (ui.rs).                                         *)
(*                                                                         *)
(* Five specifications share the module's variables; each moves its own    *)
(* group and leaves the others parked:                                     *)
(*   Spec            one caller of Model::download and of Whisper::new,    *)
(*                   and an observer                                       *)
(*   SpecTwo         two callers of Model::download at once, no observer   *)
(*   SpecTranscribe  Whisper::transcribe and the task utils::whisper       *)
(*   SpecRender      Transcript::to_lrc / to_srt / to_vtt and as_lrc       *)
(*   SpecUI          the two triggers of Conv::update, the tasks they      *)
(*                   spawn and the two ffmpeg steps of ffmpeg_merge        *)
(***************************************************************************)
EXTENDS Integers, Sequences, FiniteSets, TLC

VARIABLES
    \* ---- model store (config.rs) ----
    DOWNLOADING,    \* the cancel/active flag (crate::utils::DOWNLOADING)
    DOWNLOADED,     \* config.rs:366
    FILE_SIZE,      \* config.rs:365
    exists,         \* exists[m]: the resolved path of model m exists
    fileLen,        \* fileLen[m]: bytes in the file of model m
    reqs,           \* reqs[m]: GET requests sent for model m
    pc,             \* pc[t]: where caller t is in Model::download
    mdl,            \* mdl[t]: the model of t's current call
    result,         \* result[t]: what t's last call returned
    site,           \* site[t]: the statement t's last call returned from
    calls,          \* calls[t]: calls made by t
    resp,           \* resp[t]: content_length() of t's response
    item,           \* item[t]: the item stream.next() yielded last
    yielded,        \* yielded[t]: items yielded by t's stream
    new,            \* new[t]: the local `new` of config.rs:395
    ctx,            \* ctx[t]: what Whisper::new made of the model file after
                    \*         t's last call of download (whisper.rs:35-38)
    \* ---- transcription (whisper.rs, utils.rs) ----
    decode,         \* what the inference state holds after full()
    tres,           \* the result of the last transcribe call
    word_timestamps,    \* the word_timestamps argument of that call
    wpc,            \* where the task utils::whisper is
    WHISPER,        \* utils.rs:9
    written,        \* written[ext]: the subtitle file the task wrote
    \* ---- rendering (whisper.rs, utils.rs) ----
    tr,             \* the Transcript handed to a renderer
    out,            \* the renderer called last and the text it returned
    \* ---- triggers and the merge task (ui.rs, utils.rs) ----
    MERGE,          \* utils.rs:10
    wtask,          \* wtask[i]: where the i-th spawned task utils::whisper is
    mtask,          \* mtask[i]: where the i-th spawned merge thread is, and
                    \*           what became of its two ffmpeg steps
    click           \* the last click on a trigger and what its handler did

dvars == <<DOWNLOADING, DOWNLOADED, FILE_SIZE, exists, fileLen, reqs, pc, mdl,
           result, site, calls, resp, item, yielded, new>>
nvars == <<ctx>>
tvars == <<decode, tres, word_timestamps, wpc, WHISPER, written>>
rvars == <<tr, out>>
uvars == <<MERGE, wtask, mtask, click>>
vars == <<dvars, nvars, tvars, rvars, uvars>>

(***************************************************************************)
(* Bounds of the model.                                                    *)
(***************************************************************************)
MaxCalls == 2       \* calls of Model::download per caller
MaxChunks == 2      \* items a response stream yields before it ends
MaxChunkLen == 2    \* bytes in one chunk
MaxLen == 2         \* the largest content length a response declares
MaxSegs == 2        \* segments of a decode
MaxToks == 2        \* tokens of a segment
MaxFrags == 2       \* fragments of a rendered list
MaxTasks == 2       \* tasks of one kind spawned by the triggers
MaxClicks == 3      \* clicks on the triggers

\* !0 of an AtomicU64 (config.rs:365, 401): the largest value of the counter,
\* here the largest the model's integers hold; every length of the model is
\* below it.
U64_MAX == 2147483647

Min(a, b) == IF a <= b THEN a ELSE b

(***************************************************************************)
(* The model store: Model::download, config.rs:375-403.                    *)
(***************************************************************************)
Models == {"tiny", "base"}
AllTasks == {"t1", "t2"}
SingleTask == {"t1"}

NoResp == [some |-> FALSE, len |-> 0]
NoItem == [kind |-> "none", len |-> 0]
Items == {[kind |-> "chunk", len |-> n] : n \in 1..MaxChunkLen}
             \cup {[kind |-> "err", len |-> 0]}
Resps == {[some |-> TRUE, len |-> n] : n \in 0..MaxLen} \cup {NoResp}

\* The progress state's idle values (config.rs:365-366, 398-401).
Idle == DOWNLOADING = FALSE /\ DOWNLOADED = 0 /\ FILE_SIZE = U64_MAX

\* The statics as they are initialised; DOWNLOADING is declared in
\* crate::utils and starts cleared, as the idle state has it.
InitDownload ==
    /\ DOWNLOADING = FALSE
    /\ DOWNLOADED = 0
    /\ FILE_SIZE = U64_MAX
    /\ exists = [m \in Models |-> FALSE]
    /\ fileLen = [m \in Models |-> 0]
    /\ reqs = [m \in Models |-> 0]
    /\ pc = [t \in AllTasks |-> "idle"]
    /\ mdl = [t \in AllTasks |-> "tiny"]
    /\ result = [t \in AllTasks |-> "none"]
    /\ site = [t \in AllTasks |-> "none"]
    /\ calls = [t \in AllTasks |-> 0]
    /\ resp = [t \in AllTasks |-> NoResp]
    /\ item = [t \in AllTasks |-> NoItem]
    /\ yielded = [t \in AllTasks |-> 0]
    /\ new = [t \in AllTasks |-> 0]

\* A return of the call: pc, result and the returning statement.
Return(t, r, s) ==
    /\ pc' = [pc EXCEPT ![t] = "done"]
    /\ result' = [result EXCEPT ![t] = r]
    /\ site' = [site EXCEPT ![t] = s]

Goto(t, l) ==
    /\ pc' = [pc EXCEPT ![t] = l]
    /\ UNCHANGED <<result, site>>

\* A caller calls model.download() (whisper.rs:34).
Call(t) ==
    /\ pc[t] \in {"idle", "done"}
    /\ calls[t] < MaxCalls
    /\ \E m \in Models : mdl' = [mdl EXCEPT ![t] = m]
    /\ calls' = [calls EXCEPT ![t] = @ + 1]
    /\ pc' = [pc EXCEPT ![t] = "start"]
    /\ result' = [result EXCEPT ![t] = "none"]
    /\ site' = [site EXCEPT ![t] = "none"]
    /\ resp' = [resp EXCEPT ![t] = NoResp]
    /\ item' = [item EXCEPT ![t] = NoItem]
    /\ yielded' = [yielded EXCEPT ![t] = 0]
    /\ new' = [new EXCEPT ![t] = 0]
    /\ UNCHANGED <<DOWNLOADING, DOWNLOADED, FILE_SIZE, exists, fileLen, reqs>>
    /\ UNCHANGED <<nvars, tvars, rvars, uvars>>

\* config.rs:376-379: if path.exists() { return Ok(()) }
StartSkipsCheck(t) ==
    /\ pc[t] = "start"
    /\ Goto(t, "store_flag")
    /\ UNCHANGED <<DOWNLOADING, DOWNLOADED, FILE_SIZE, exists, fileLen, reqs,
                   mdl, calls, resp, item, yielded, new>>
    /\ UNCHANGED <<nvars, tvars, rvars, uvars>>

Start(t) ==
    /\ pc[t] = "start"
    /\ IF exists[mdl[t]]
         THEN Return(t, "Ok", "exists")
         ELSE Goto(t, "store_flag")
    /\ UNCHANGED <<DOWNLOADING, DOWNLOADED, FILE_SIZE, exists, fileLen, reqs,
                   mdl, calls, resp, item, yielded, new>>
    /\ UNCHANGED <<nvars, tvars, rvars, uvars>>

\* config.rs:380: DOWNLOADING.store(true)
StoreFlag(t) ==
    /\ pc[t] = "store_flag"
    /\ DOWNLOADING' = TRUE
    /\ Goto(t, "create")
    /\ UNCHANGED <<DOWNLOADED, FILE_SIZE, exists, fileLen, reqs,
                   mdl, calls, resp, item, yielded, new>>
    /\ UNCHANGED <<nvars, tvars, rvars, uvars>>

\* config.rs:381: File::create(path)? creates or truncates the file, or fails.
Create(t) ==
    /\ pc[t] = "create"
    /\ \/ /\ exists' = [exists EXCEPT ![mdl[t]] = TRUE]
          /\ fileLen' = [fileLen EXCEPT ![mdl[t]] = 0]
          /\ Goto(t, "send")
       \/ /\ Return(t, "IoError", "create")
          /\ UNCHANGED <<exists, fileLen>>
    /\ UNCHANGED <<DOWNLOADING, DOWNLOADED, FILE_SIZE, reqs,
                   mdl, calls, resp, item, yielded, new>>
    /\ UNCHANGED <<nvars, tvars, rvars, uvars>>

\* A download that removes the file it created when the request fails.
SendFailureRemovesFile(t) ==
    /\ pc[t] = "send"
    /\ reqs' = [reqs EXCEPT ![mdl[t]] = @ + 1]
    /\ \/ /\ \E r \in Resps : resp' = [resp EXCEPT ![t] = r]
          /\ Goto(t, "store_size")
          /\ UNCHANGED exists
       \/ /\ Return(t, "NotConnected", "send")
          /\ exists' = [exists EXCEPT ![mdl[t]] = FALSE]
          /\ UNCHANGED resp
    /\ UNCHANGED <<DOWNLOADING, DOWNLOADED, FILE_SIZE, fileLen,
                   mdl, calls, item, yielded, new>>
    /\ UNCHANGED <<nvars, tvars, rvars, uvars>>

\* config.rs:382-385: CLIENT.get(url).send().await.map_err(NotConnected)?
Send(t) ==
    /\ pc[t] = "send"
    /\ reqs' = [reqs EXCEPT ![mdl[t]] = @ + 1]
    /\ \/ /\ \E r \in Resps : resp' = [resp EXCEPT ![t] = r]
          /\ Goto(t, "store_size")
       \/ /\ Return(t, "NotConnected", "send")
          /\ UNCHANGED resp
    /\ UNCHANGED <<DOWNLOADING, DOWNLOADED, FILE_SIZE, exists, fileLen,
                   mdl, calls, item, yielded, new>>
    /\ UNCHANGED <<nvars, tvars, rvars, uvars>>

\* config.rs:386: FILE_SIZE.store(file.content_length().unwrap()); the unwrap
\* of None panics.
StoreSize(t) ==
    /\ pc[t] = "store_size"
    /\ IF resp[t].some
         THEN /\ FILE_SIZE' = resp[t].len
              /\ Goto(t, "store_zero")
         ELSE /\ Return(t, "panic", "size")
              /\ UNCHANGED FILE_SIZE
    /\ UNCHANGED <<DOWNLOADING, DOWNLOADED, exists, fileLen, reqs,
                   mdl, calls, resp, item, yielded, new>>
    /\ UNCHANGED <<nvars, tvars, rvars, uvars>>

\* config.rs:387: DOWNLOADED.store(0)
StoreZero(t) ==
    /\ pc[t] = "store_zero"
    /\ DOWNLOADED' = 0
    /\ Goto(t, "next")
    /\ UNCHANGED <<DOWNLOADING, FILE_SIZE, exists, fileLen, reqs,
                   mdl, calls, resp, item, yielded, new>>
    /\ UNCHANGED <<nvars, tvars, rvars, uvars>>

\* config.rs:389: while let Some(item) = stream.next().await: the stream
\* yields a chunk or an error, or ends.
StreamNext(t) ==
    /\ pc[t] = "next"
    /\ \/ /\ yielded[t] < MaxChunks
          /\ \E i \in Items : item' = [item EXCEPT ![t] = i]
          /\ yielded' = [yielded EXCEPT ![t] = @ + 1]
          /\ Goto(t, "check")
       \/ /\ Goto(t, "reset_flag")
          /\ UNCHANGED <<item, yielded>>
    /\ UNCHANGED <<DOWNLOADING, DOWNLOADED, FILE_SIZE, exists, fileLen, reqs,
                   mdl, calls, resp, new>>
    /\ UNCHANGED <<nvars, tvars, rvars, uvars>>

\* A download that looks at the item before it looks at the flag.
CheckAfterItem(t) ==
    /\ pc[t] = "check"
    /\ IF item[t].kind = "err"
         THEN Return(t, "InvalidData", "item")
         ELSE IF ~DOWNLOADING
                THEN /\ pc' = [pc EXCEPT ![t] = "reset_flag"]
                     /\ site' = [site EXCEPT ![t] = "break"]
                     /\ UNCHANGED result
                ELSE Goto(t, "consume")
    /\ UNCHANGED <<DOWNLOADING, DOWNLOADED, FILE_SIZE, exists, fileLen, reqs,
                   mdl, calls, resp, item, yielded, new>>
    /\ UNCHANGED <<nvars, tvars, rvars, uvars>>

\* A download that never looks at the flag.
CheckIgnoresFlag(t) ==
    /\ pc[t] = "check"
    /\ Goto(t, "consume")
    /\ UNCHANGED <<DOWNLOADING, DOWNLOADED, FILE_SIZE, exists, fileLen, reqs,
                   mdl, calls, resp, item, yielded, new>>
    /\ UNCHANGED <<nvars, tvars, rvars, uvars>>

\* config.rs:390-392: if !DOWNLOADING.load() { break; }
Check(t) ==
    /\ pc[t] = "check"
    /\ IF ~DOWNLOADING
         THEN /\ pc' = [pc EXCEPT ![t] = "reset_flag"]
              /\ site' = [site EXCEPT ![t] = "break"]
              /\ UNCHANGED result
         ELSE Goto(t, "consume")
    /\ UNCHANGED <<DOWNLOADING, DOWNLOADED, FILE_SIZE, exists, fileLen, reqs,
                   mdl, calls, resp, item, yielded, new>>
    /\ UNCHANGED <<nvars, tvars, rvars, uvars>>

\* config.rs:393-394: let chunk = item.map_err(InvalidData)?;
\* model.write_all(&chunk)?
Consume(t) ==
    /\ pc[t] = "consume"
    /\ IF item[t].kind = "err"
         THEN /\ Return(t, "InvalidData", "item")
              /\ UNCHANGED fileLen
         ELSE \/ /\ fileLen' = [fileLen EXCEPT ![mdl[t]] = @ + item[t].len]
                 /\ Goto(t, "load")
              \/ /\ Return(t, "IoError", "write")
                 /\ UNCHANGED fileLen
    /\ UNCHANGED <<DOWNLOADING, DOWNLOADED, FILE_SIZE, exists, reqs,
                   mdl, calls, resp, item, yielded, new>>
    /\ UNCHANGED <<nvars, tvars, rvars, uvars>>

\* config.rs:395: let new = min(DOWNLOADED.load() + chunk.len(), FILE_SIZE.load())
\* (two loads of two atomics: DOWNLOADED first, FILE_SIZE second).
LoadDownloaded(t) ==
    /\ pc[t] = "load"
    /\ new' = [new EXCEPT ![t] = DOWNLOADED + item[t].len]
    /\ Goto(t, "min")
    /\ UNCHANGED <<DOWNLOADING, DOWNLOADED, FILE_SIZE, exists, fileLen, reqs,
                   mdl, calls, resp, item, yielded>>
    /\ UNCHANGED <<nvars, tvars, rvars, uvars>>

LoadSize(t) ==
    /\ pc[t] = "min"
    /\ new' = [new EXCEPT ![t] = Min(@, FILE_SIZE)]
    /\ Goto(t, "store_new")
    /\ UNCHANGED <<DOWNLOADING, DOWNLOADED, FILE_SIZE, exists, fileLen, reqs,
                   mdl, calls, resp, item, yielded>>
    /\ UNCHANGED <<nvars, tvars, rvars, uvars>>

\* config.rs:396: DOWNLOADED.store(new)
StoreNew(t) ==
    /\ pc[t] = "store_new"
    /\ DOWNLOADED' = new[t]
    /\ Goto(t, "next")
    /\ UNCHANGED <<DOWNLOADING, FILE_SIZE, exists, fileLen, reqs,
                   mdl, calls, resp, item, yielded, new>>
    /\ UNCHANGED <<nvars, tvars, rvars, uvars>>

\* config.rs:398: DOWNLOADING.store(false)
ResetFlag(t) ==
    /\ pc[t] = "reset_flag"
    /\ DOWNLOADING' = FALSE
    /\ Goto(t, "reset_done")
    /\ UNCHANGED <<DOWNLOADED, FILE_SIZE, exists, fileLen, reqs,
                   mdl, calls, resp, item, yielded, new>>
    /\ UNCHANGED <<nvars, tvars, rvars, uvars>>

\* config.rs:400: DOWNLOADED.store(0)
ResetDownloaded(t) ==
    /\ pc[t] = "reset_done"
    /\ DOWNLOADED' = 0
    /\ Goto(t, "reset_size")
    /\ UNCHANGED <<DOWNLOADING, FILE_SIZE, exists, fileLen, reqs,
                   mdl, calls, resp, item, yielded, new>>
    /\ UNCHANGED <<nvars, tvars, rvars, uvars>>

\* config.rs:401-402: FILE_SIZE.store(!0); Ok(())
ResetSize(t) ==
    /\ pc[t] = "reset_size"
    /\ FILE_SIZE' = U64_MAX
    /\ Return(t, "Ok", IF site[t] = "break" THEN "break" ELSE "end")
    /\ UNCHANGED <<DOWNLOADING, DOWNLOADED, exists, fileLen, reqs,
                   mdl, calls, resp, item, yielded, new>>
    /\ UNCHANGED <<nvars, tvars, rvars, uvars>>

\* An observer requests cancellation: DOWNLOADING.store(false).
Cancel ==
    /\ DOWNLOADING = TRUE
    /\ DOWNLOADING' = FALSE
    /\ UNCHANGED <<DOWNLOADED, FILE_SIZE, exists, fileLen, reqs, pc, mdl,
                   result, site, calls, resp, item, yielded, new>>
    /\ UNCHANGED <<nvars, tvars, rvars, uvars>>

(***************************************************************************)
(* Whisper::new, whisper.rs:33-39: model.download().await?, then the model *)
(* file is loaded into an inference context.                               *)
(***************************************************************************)
NoCtx == [call |-> 0, len |-> 0, result |-> "none"]

InitNew == ctx = [t \in AllTasks |-> NoCtx]

\* whisper.rs:34: the `?` after download().await returns the error of the
\* download to the caller of Whisper::new; nothing is loaded.
NewErr(t) ==
    /\ pc[t] = "done" /\ result[t] \in {"IoError", "NotConnected", "InvalidData"}
    /\ ctx[t].call # calls[t]
    /\ ctx' = [ctx EXCEPT ![t] = [call |-> calls[t], len |-> 0,
                                  result |-> result[t]]]
    /\ UNCHANGED dvars
    /\ UNCHANGED <<tvars, rvars, uvars>>

\* whisper.rs:35-38: WhisperContext::new(model.get_path()..) reads the file
\* at the resolved path as it is: the engine, or InvalidData.
NewLoad(t) ==
    /\ pc[t] = "done" /\ result[t] = "Ok"
    /\ ctx[t].call # calls[t]
    /\ \E r \in {"Ok", "InvalidData"} :
          ctx' = [ctx EXCEPT ![t] = [call |-> calls[t],
                                    len |-> fileLen[mdl[t]], result |-> r]]
    /\ UNCHANGED dvars
    /\ UNCHANGED <<tvars, rvars, uvars>>

New(t) == NewErr(t) \/ NewLoad(t)

Download(t) ==
    \/ Call(t) \/ Start(t) \/ StoreFlag(t) \/ Create(t) \/ Send(t)
    \/ StoreSize(t) \/ StoreZero(t) \/ StreamNext(t) \/ Check(t)
    \/ Consume(t) \/ LoadDownloaded(t) \/ LoadSize(t) \/ StoreNew(t)
    \/ ResetFlag(t) \/ ResetDownloaded(t) \/ ResetSize(t)

(***************************************************************************)
(* Text.  A String is a sequence of one-character strings.                 *)
(***************************************************************************)
Whitespace == {" ", "\t", "\n", "\r"}
DigitChars == <<"0", "1", "2", "3", "4", "5", "6", "7", "8", "9">>

\* i64 division and remainder: the quotient is truncated toward zero and the
\* remainder has the sign of the dividend.
RustDiv(a, b) == IF a >= 0 THEN a \div b ELSE -((-a) \div b)
RustRem(a, b) == a - b * RustDiv(a, b)

\* The decimal digits of n >= 0.
RECURSIVE Dec(_)
Dec(n) == IF n < 10 THEN <<DigitChars[n + 1]>>
          ELSE Dec(n \div 10) \o <<DigitChars[(n % 10) + 1]>>

RECURSIVE ZeroFill(_, _)
ZeroFill(ds, w) == IF Len(ds) >= w THEN ds ELSE ZeroFill(<<"0">> \o ds, w)

\* format!("{:0w}", n) of an integer: sign-aware zero padding to width w.
Fmt(n, w) == IF n < 0 THEN <<"-">> \o ZeroFill(Dec(-n), w - 1)
             ELSE ZeroFill(Dec(n), w)

\* format!("{}", n)
Display(n) == IF n < 0 THEN <<"-">> \o Dec(-n) ELSE Dec(n)

\* str::trim: leading and trailing whitespace removed.
RECURSIVE TrimStart(_)
TrimStart(s) == IF s # <<>> /\ Head(s) \in Whitespace THEN TrimStart(Tail(s)) ELSE s
RECURSIVE TrimEnd(_)
TrimEnd(s) == IF s # <<>> /\ s[Len(s)] \in Whitespace
                THEN TrimEnd(SubSeq(s, 1, Len(s) - 1)) ELSE s
Trim(s) == TrimEnd(TrimStart(s))

\* str::starts_with
StartsWith(s, p) == Len(s) >= Len(p) /\ SubSeq(s, 1, Len(p)) = p

(***************************************************************************)
(* The subtitle renderers: whisper.rs:133-197 and utils.rs:12-33.          *)
(* A Transcript is [utterances, word_utterances], word_utterances an       *)
(* Option: [some |-> FALSE, list |-> <<>>] is None.                        *)
(***************************************************************************)
None == [some |-> FALSE, list |-> <<>>]
Some(l) == [some |-> TRUE, list |-> l]

\* A choice that falls back to utterances when the word list is empty.
FragmentsOfNonEmpty(t) ==
    IF t.word_utterances.some /\ t.word_utterances.list # <<>>
      THEN t.word_utterances.list
      ELSE t.utterances

\* self.word_utterances.as_ref().unwrap_or(&self.utterances)
Fragments(t) == IF t.word_utterances.some THEN t.word_utterances.list
                ELSE t.utterances

\* whisper.rs:141-148, utils.rs:20-23: "[{:02}:{:02}.{:02}]" of
\* t / 100 / 60, t / 100 % 60, t % 100
LrcTime(t) ==
    <<"[">> \o Fmt(RustDiv(RustDiv(t, 100), 60), 2) \o <<":">>
            \o Fmt(RustRem(RustDiv(t, 100), 60), 2) \o <<".">>
            \o Fmt(RustRem(t, 100), 2) \o <<"]">>

\* whisper.rs:140-149: "[start]{text.trim()}\n[end]\n"
LrcCue(f) == LrcTime(f.start) \o Trim(f.text) \o <<"\n">>
                 \o LrcTime(f.end) \o <<"\n">>

RECURSIVE LrcFold(_, _)
LrcFold(frags, lrc) ==
    IF frags = <<>> THEN lrc
    ELSE LrcFold(Tail(frags), lrc \o LrcCue(Head(frags)))

to_lrc(t) == LrcFold(Fragments(t), <<>>)

\* utils.rs:18-31: "[start]\n" then "[start]{text}\n"
AsLrcCue(f) == LrcTime(f.start) \o <<"\n">>
                   \o LrcTime(f.start) \o f.text \o <<"\n">>

RECURSIVE AsLrcFold(_, _)
AsLrcFold(frags, lrc) ==
    IF frags = <<>> THEN lrc
    ELSE AsLrcFold(Tail(frags), lrc \o AsLrcCue(Head(frags)))

as_lrc(t) == AsLrcFold(Fragments(t), <<>>)

\* A renderer that takes the minutes from the seconds without the % 3600.
SrtTimeMinutesUnreduced(t) ==
    Fmt(RustDiv(RustDiv(t, 100), 3600), 2) \o <<":">>
        \o Fmt(RustDiv(RustDiv(t, 100), 60), 2) \o <<":">>
        \o Fmt(RustRem(RustDiv(t, 100), 60), 2) \o <<",">>
        \o Fmt(RustRem(t * 10, 1000), 3)

\* whisper.rs:163-171: "{:02}:{:02}:{:02},{:03}" of
\* t / 100 / 3600, t / 100 % 3600 / 60, t / 100 % 60, t * 10 % 1000
SrtTime(t) ==
    Fmt(RustDiv(RustDiv(t, 100), 3600), 2) \o <<":">>
        \o Fmt(RustDiv(RustRem(RustDiv(t, 100), 3600), 60), 2) \o <<":">>
        \o Fmt(RustRem(RustDiv(t, 100), 60), 2) \o <<",">>
        \o Fmt(RustRem(t * 10, 1000), 3)

\* whisper.rs:163-172: "{i}\n{start} --> {end}\n{text.trim()}\n\n"
SrtCue(i, f) ==
    Display(i) \o <<"\n">> \o SrtTime(f.start) \o <<" ", "-", "-", ">", " ">>
        \o SrtTime(f.end) \o <<"\n">> \o Trim(f.text) \o <<"\n", "\n">>

\* whisper.rs:158-176: fold((1, String::new()), |(i, srt), fragment|
\* (i + 1, srt + cue)).1
RECURSIVE SrtFold(_, _, _)
SrtFold(frags, i, srt) ==
    IF frags = <<>> THEN srt
    ELSE SrtFold(Tail(frags), i + 1, srt \o SrtCue(i, Head(frags)))

\* A renderer whose cue counter starts at 0.
to_srt_from_zero(t) == SrtFold(Fragments(t), 0, <<>>)

to_srt(t) == SrtFold(Fragments(t), 1, <<>>)

\* A renderer that reduces the minutes modulo 60.
VttTimeMinutesReduced(t) ==
    Fmt(RustRem(RustDiv(RustDiv(t, 100), 60), 60), 2) \o <<":">>
        \o Fmt(RustRem(RustDiv(t, 100), 60), 2) \o <<".">>
        \o Fmt(RustRem(t * 10, 1000), 3)

\* whisper.rs:187-193: "{:02}:{:02}.{:03}" of
\* t / 100 / 60, t / 100 % 60, t * 10 % 1000
VttTime(t) ==
    Fmt(RustDiv(RustDiv(t, 100), 60), 2) \o <<":">>
        \o Fmt(RustRem(RustDiv(t, 100), 60), 2) \o <<".">>
        \o Fmt(RustRem(t * 10, 1000), 3)

\* A renderer that leaves out the "- " before the text.
VttCueNoDash(f) ==
    VttTime(f.start) \o <<" ", "-", "-", ">", " ">> \o VttTime(f.end)
        \o <<"\n">> \o Trim(f.text) \o <<"\n", "\n">>

\* whisper.rs:187-194: "{start} --> {end}\n- {text.trim()}\n\n"
VttCue(f) ==
    VttTime(f.start) \o <<" ", "-", "-", ">", " ">> \o VttTime(f.end)
        \o <<"\n", "-", " ">> \o Trim(f.text) \o <<"\n", "\n">>

\* whisper.rs:184: fold(String::from("WEBVTT\n\n"), |vtt, fragment| vtt + cue)
RECURSIVE VttFold(_, _)
VttFold(frags, vtt) ==
    IF frags = <<>> THEN vtt
    ELSE VttFold(Tail(frags), vtt \o VttCue(Head(frags)))

to_vtt(t) ==
    VttFold(Fragments(t), <<"W", "E", "B", "V", "T", "T", "\n", "\n">>)

(***************************************************************************)
(* Whisper::transcribe, whisper.rs:41-111.                                 *)
(* A decode is the sequence of segments the inference state holds after    *)
(* full(): [text, start, end, tokens], a token being [text, t0, t1].       *)
(* A failure point names the call of the engine that fails, if any.        *)
(***************************************************************************)
EmptyTranscript == [utterances |-> <<>>, word_utterances |-> None]
NoResult == [kind |-> "none", at |-> "none", transcript |-> EmptyTranscript]
Ok(t) == [kind |-> "Ok", at |-> "none", transcript |-> t]
Err(a) == [kind |-> "Err", at |-> a, transcript |-> EmptyTranscript]
Panic(a) == [kind |-> "Panic", at |-> a, transcript |-> EmptyTranscript]

ControlPrefix == <<"[", "_">>

\* whisper.rs:86-103: the tokens of segment s from token t on.
RECURSIVE TokensKeepAll(_, _, _, _, _)
TokensKeepAll(toks, f, s, t, words) ==
    IF t > Len(toks) THEN [failed |-> FALSE, words |-> words]
    ELSE IF f.at = "token" /\ f.s = s /\ f.t = t
           THEN [failed |-> TRUE, words |-> words]
           ELSE TokensKeepAll(toks, f, s, t + 1,
                    Append(words, [text |-> toks[t].text,
                                   start |-> toks[t].t0, end |-> toks[t].t1]))

RECURSIVE Tokens(_, _, _, _, _)
Tokens(toks, f, s, t, words) ==
    IF t > Len(toks) THEN [failed |-> FALSE, words |-> words]
    ELSE IF f.at = "token" /\ f.s = s /\ f.t = t
           THEN [failed |-> TRUE, words |-> words]
           ELSE IF StartsWith(toks[t].text, ControlPrefix)
                  THEN Tokens(toks, f, s, t + 1, words)
                  ELSE Tokens(toks, f, s, t + 1,
                           Append(words, [text |-> toks[t].text,
                                          start |-> toks[t].t0,
                                          end |-> toks[t].t1]))

\* A loop that puts each segment's utterance in front of the earlier ones.
RECURSIVE SegmentsNewestFirst(_, _, _, _, _, _)
SegmentsNewestFirst(d, wt, f, s, utterances, words) ==
    IF s > Len(d)
      THEN Ok([utterances |-> utterances,
               word_utterances |-> IF wt THEN Some(words) ELSE None])
      ELSE IF f.at = "segment" /\ f.s = s THEN Err("segment")
      ELSE LET us == <<[text |-> d[s].text,
                        start |-> d[s].start, end |-> d[s].end]>> \o utterances
           IN  IF ~wt THEN SegmentsNewestFirst(d, wt, f, s + 1, us, words)
               ELSE IF f.at = "n_tokens" /\ f.s = s THEN Err("n_tokens")
               ELSE LET r == Tokens(d[s].tokens, f, s, 1, words)
                    IN  IF r.failed THEN Err("token")
                        ELSE SegmentsNewestFirst(d, wt, f, s + 1, us, r.words)

\* whisper.rs:65-110: the loop over the segments from segment s on, and the
\* Transcript returned after it.
RECURSIVE Segments(_, _, _, _, _, _)
Segments(d, wt, f, s, utterances, words) ==
    IF s > Len(d)
      THEN Ok([utterances |-> utterances,
               word_utterances |-> IF wt THEN Some(words) ELSE None])
      ELSE IF f.at = "segment" /\ f.s = s THEN Err("segment")
      ELSE LET us == Append(utterances, [text |-> d[s].text,
                                         start |-> d[s].start, end |-> d[s].end])
           IN  IF ~wt THEN Segments(d, wt, f, s + 1, us, words)
               ELSE IF f.at = "n_tokens" /\ f.s = s THEN Err("n_tokens")
               ELSE LET r == Tokens(d[s].tokens, f, s, 1, words)
                    IN  IF r.failed THEN Err("token")
                        ELSE Segments(d, wt, f, s + 1, us, r.words)

\* A transcribe that returns an empty Transcript for an empty decode.
TranscribeNoEmptyCheck(d, wt, f) ==
    IF f.at = "read_file" THEN Err("read_file")
    ELSE IF f.at \in {"create_state", "full", "n_segments"} THEN Panic(f.at)
    ELSE Segments(d, wt, f, 1, <<>>, <<>>)

\* whisper.rs:52-61: utils::read_file(audio)?, create_state().expect(..),
\* state.full(..).expect(..), full_n_segments().expect(..), and the error
\* for zero segments; then the loop.
Transcribe(d, wt, f) ==
    IF f.at = "read_file" THEN Err("read_file")
    ELSE IF f.at \in {"create_state", "full", "n_segments"} THEN Panic(f.at)
    ELSE IF Len(d) = 0 THEN Err("no_segments")
    ELSE Segments(d, wt, f, 1, <<>>, <<>>)

\* What the engine can hold: token lists of a control token and a word, and
\* single tokens at the edge of the marker test (a word that starts with a
\* bracket, a lone bracket, the bare marker).
TokTexts == { <<"[", "_", "B", "E", "G", "_", "]">>, <<" ", "h", "i">> }
EdgeTexts == { <<"[", "x", "_">>, <<"[">>, <<"[", "_">> }
TokLists == UNION {[1..k -> TokTexts] : k \in 0..MaxToks}
                \cup {<<x>> : x \in EdgeTexts}

SegmentOf(i, texts) ==
    [text |-> <<" ", "s", DigitChars[i + 1], " ">>,
     start |-> 100 * (i - 1), end |-> 100 * (i - 1) + 50,
     tokens |-> [j \in 1..Len(texts) |->
                    [text |-> texts[j], t0 |-> 100 * (i - 1) + 10 * (j - 1),
                     t1 |-> 100 * (i - 1) + 10 * j]]]

Decodes == UNION {{[i \in 1..n |-> SegmentOf(i, c[i])] : c \in [1..n -> TokLists]}
                      : n \in 0..MaxSegs}

FailPoints ==
    {[at |-> a, s |-> 0, t |-> 0] :
          a \in {"none", "read_file", "create_state", "full", "n_segments"}}
    \cup {[at |-> a, s |-> i, t |-> 0] :
          a \in {"segment", "n_tokens"}, i \in 1..MaxSegs}
    \cup {[at |-> "token", s |-> i, t |-> j] : i \in 1..MaxSegs, j \in 1..MaxToks}

NoFile == [some |-> FALSE, text |-> <<>>]
File(x) == [some |-> TRUE, text |-> x]

InitTranscribe ==
    /\ decode \in Decodes
    /\ tres = NoResult
    /\ word_timestamps = FALSE
    /\ wpc = "idle"
    /\ WHISPER = FALSE
    /\ written = [lrc |-> NoFile, srt |-> NoFile]

\* A caller of the library calls transcribe(audio, translate, word_timestamps).
TranscribeCall ==
    /\ wpc = "idle"
    /\ \E wt \in BOOLEAN, f \in FailPoints :
          /\ tres' = Transcribe(decode, wt, f)
          /\ word_timestamps' = wt
    /\ wpc' = "called"
    /\ UNCHANGED <<decode, WHISPER, written>>
    /\ UNCHANGED <<dvars, nvars, rvars, uvars>>

(***************************************************************************)
(* The transcription task, utils.rs:35-51.                                 *)
(***************************************************************************)
\* utils.rs:36: rt.spawn(async move { .. })
TaskSpawn ==
    /\ wpc = "idle"
    /\ wpc' = "store"
    /\ UNCHANGED <<decode, tres, word_timestamps, WHISPER, written>>
    /\ UNCHANGED <<dvars, nvars, rvars, uvars>>

\* utils.rs:37: WHISPER.store(true)
TaskStore ==
    /\ wpc = "store"
    /\ WHISPER' = TRUE
    /\ wpc' = "new"
    /\ UNCHANGED <<decode, tres, word_timestamps, written>>
    /\ UNCHANGED <<dvars, nvars, rvars, uvars>>

\* utils.rs:38: Whisper::new(Model::new(size), Some(lang)).await, which yields
\* the engine or panics.
TaskNew ==
    /\ wpc = "new"
    /\ wpc' \in {"transcribe", "panicked"}
    /\ UNCHANGED <<decode, tres, word_timestamps, WHISPER, written>>
    /\ UNCHANGED <<dvars, nvars, rvars, uvars>>

\* utils.rs:39: if let Ok(ref t) = w.transcribe(&path, false, false)
TaskTranscribe ==
    /\ wpc = "transcribe"
    /\ \E f \in FailPoints : tres' = Transcribe(decode, FALSE, f)
    /\ word_timestamps' = FALSE
    /\ wpc' = CASE tres'.kind = "Ok" -> "write_lrc"
                [] tres'.kind = "Err" -> "clear"
                [] OTHER -> "panicked"
    /\ UNCHANGED <<decode, WHISPER, written>>
    /\ UNCHANGED <<dvars, nvars, rvars, uvars>>

\* utils.rs:40-45: as_lrc(t), File::create(path_lrc).unwrap(),
\* file.write_all(..).unwrap(): written, or created and the write panics, or
\* the create panics.
TaskWriteLrc ==
    /\ wpc = "write_lrc"
    /\ \/ /\ written' = [written EXCEPT !.lrc = File(as_lrc(tres.transcript))]
          /\ wpc' = "write_srt"
       \/ /\ written' = [written EXCEPT !.lrc = File(<<>>)]
          /\ wpc' = "panicked"
       \/ /\ UNCHANGED written
          /\ wpc' = "panicked"
    /\ UNCHANGED <<decode, tres, word_timestamps, WHISPER>>
    /\ UNCHANGED <<dvars, nvars, rvars, uvars>>

\* utils.rs:41-47: t.as_srt(), File::create(path_srt).unwrap(),
\* file.write_all(..).unwrap()
TaskWriteSrt ==
    /\ wpc = "write_srt"
    /\ \/ /\ written' = [written EXCEPT !.srt = File(to_srt(tres.transcript))]
          /\ wpc' = "clear"
       \/ /\ written' = [written EXCEPT !.srt = File(<<>>)]
          /\ wpc' = "panicked"
       \/ /\ UNCHANGED written
          /\ wpc' = "panicked"
    /\ UNCHANGED <<decode, tres, word_timestamps, WHISPER>>
    /\ UNCHANGED <<dvars, nvars, rvars, uvars>>

\* utils.rs:49: WHISPER.store(false)
TaskClear ==
    /\ wpc = "clear"
    /\ WHISPER' = FALSE
    /\ wpc' = "done"
    /\ UNCHANGED <<decode, tres, word_timestamps, written>>
    /\ UNCHANGED <<dvars, nvars, rvars, uvars>>

(***************************************************************************)
(* Calls of the renderers on a Transcript.                                 *)
(***************************************************************************)
Utterance(a, b, x) == [start |-> a, end |-> b, text |-> x]

\* Fragments of lists of several fragments.
UttPool ==
    { Utterance(65, 325, <<" ", "h", "e", "l", "l", "o", " ">>),
      Utterance(0, 0, <<>>),
      Utterance(359999, 8639999, <<"a", " ", "b">>),
      Utterance(6000, 6100, <<"\t", " ", "7", "\n">>) }
UttLists == UNION {[1..n -> UttPool] : n \in 0..MaxFrags}

\* Times below 24 hours: each field at its least, an inner and its greatest
\* value.
TimeSamples ==
    { h * 360000 + m * 6000 + sec * 100 + c :
        h \in {0, 1, 23}, m \in {0, 1, 59}, sec \in {0, 7, 59},
        c \in {0, 5, 65, 99} }

Transcripts ==
    {[utterances |-> u, word_utterances |-> w] :
         u \in UttLists, w \in {None} \cup {Some(l) : l \in UttLists}}
    \cup {[utterances |->
               <<Utterance(a, Min(a + d, 8639999), <<" ", "h", "i">>)>>,
           word_utterances |-> None] :
              a \in TimeSamples, d \in {260, 8639999}}

NoOutput == [fmt |-> "none", text |-> <<>>]

InitRender ==
    /\ tr \in Transcripts
    /\ out = NoOutput

RenderLrc ==
    /\ out' = [fmt |-> "lrc", text |-> to_lrc(tr)]
    /\ UNCHANGED tr
    /\ UNCHANGED <<dvars, nvars, tvars, uvars>>

RenderAsLrc ==
    /\ out' = [fmt |-> "as_lrc", text |-> as_lrc(tr)]
    /\ UNCHANGED tr
    /\ UNCHANGED <<dvars, nvars, tvars, uvars>>

RenderSrt ==
    /\ out' = [fmt |-> "srt", text |-> to_srt(tr)]
    /\ UNCHANGED tr
    /\ UNCHANGED <<dvars, nvars, tvars, uvars>>

RenderVtt ==
    /\ out' = [fmt |-> "vtt", text |-> to_vtt(tr)]
    /\ UNCHANGED tr
    /\ UNCHANGED <<dvars, nvars, tvars, uvars>>

(***************************************************************************)
(* The triggers of the window (ui.rs:115-129) and the tasks they spawn.    *)
(* The tasks of one kind are numbered in the order they are spawned.       *)
(***************************************************************************)
TaskIds == 1..MaxTasks

NotSpawned == "none"
NoStep == "none"
NoMerge == [pc |-> NotSpawned, step1 |-> NoStep, step2 |-> NoStep]
NoClick == [n |-> 0, button |-> "none", spawned |-> FALSE]

InitUI ==
    /\ WHISPER = FALSE
    /\ MERGE = FALSE
    /\ wtask = [i \in TaskIds |-> NotSpawned]
    /\ mtask = [i \in TaskIds |-> NoMerge]
    /\ click = NoClick

\* The number the next spawned task gets.
NextTask(tasks, none) ==
    IF \E i \in TaskIds : tasks[i] = none
      THEN CHOOSE i \in TaskIds :
               tasks[i] = none /\ \A j \in TaskIds : j < i => tasks[j] # none
      ELSE 0

\* Conv::whisper, the method the transcribe trigger calls: fire and forget,
\* it calls utils::whisper, which spawns the task (utils.rs:36).
ConvWhisper ==
    /\ NextTask(wtask, NotSpawned) # 0
    /\ wtask' = [wtask EXCEPT ![NextTask(wtask, NotSpawned)] = "store"]

\* Conv::ffmpeg_merge, the method the merge trigger calls: fire and forget,
\* it calls utils::ffmpeg_merge, which spawns the thread (utils.rs:54).
ConvFfmpegMerge ==
    /\ NextTask(mtask, NoMerge) # 0
    /\ mtask' = [mtask EXCEPT ![NextTask(mtask, NoMerge)].pc = "store"]

\* A handler that spawns the task whatever the flag holds.
ClickTranscribeAlways ==
    /\ click.n < MaxClicks
    /\ ConvWhisper
    /\ click' = [n |-> click.n + 1, button |-> "whisper", spawned |-> TRUE]
    /\ UNCHANGED <<WHISPER, MERGE, mtask>>
    /\ UNCHANGED <<decode, tres, word_timestamps, wpc, written>>
    /\ UNCHANGED <<dvars, nvars, rvars>>

\* ui.rs:115-119: if ui.button(..).clicked() { if !WHISPER.load(Relaxed)
\* { self.whisper(); } }
ClickTranscribe ==
    /\ click.n < MaxClicks
    /\ IF ~WHISPER
         THEN /\ ConvWhisper
              /\ click' = [n |-> click.n + 1, button |-> "whisper",
                           spawned |-> TRUE]
         ELSE /\ UNCHANGED wtask
              /\ click' = [n |-> click.n + 1, button |-> "whisper",
                           spawned |-> FALSE]
    /\ UNCHANGED <<WHISPER, MERGE, mtask>>
    /\ UNCHANGED <<decode, tres, word_timestamps, wpc, written>>
    /\ UNCHANGED <<dvars, nvars, rvars>>

\* ui.rs:124-128: if ui.button(..).clicked() { if !MERGE.load(Relaxed)
\* { self.ffmpeg_merge(); } }
ClickMerge ==
    /\ click.n < MaxClicks
    /\ IF ~MERGE
         THEN /\ ConvFfmpegMerge
              /\ click' = [n |-> click.n + 1, button |-> "merge",
                           spawned |-> TRUE]
         ELSE /\ UNCHANGED mtask
              /\ click' = [n |-> click.n + 1, button |-> "merge",
                           spawned |-> FALSE]
    /\ UNCHANGED <<WHISPER, MERGE, wtask>>
    /\ UNCHANGED <<decode, tres, word_timestamps, wpc, written>>
    /\ UNCHANGED <<dvars, nvars, rvars>>

\* utils.rs:37: WHISPER.store(true)
WhisperStore(i) ==
    /\ wtask[i] = "store"
    /\ WHISPER' = TRUE
    /\ wtask' = [wtask EXCEPT ![i] = "body"]
    /\ UNCHANGED <<MERGE, mtask, click>>
    /\ UNCHANGED <<decode, tres, word_timestamps, wpc, written>>
    /\ UNCHANGED <<dvars, nvars, rvars>>

\* utils.rs:38-48: Whisper::new, transcribe and the two files: the body runs
\* to its end, or one of its unwraps or expects panics.
WhisperBody(i) ==
    /\ wtask[i] = "body"
    /\ \E l \in {"clear", "panicked"} : wtask' = [wtask EXCEPT ![i] = l]
    /\ UNCHANGED <<WHISPER, MERGE, mtask, click>>
    /\ UNCHANGED <<decode, tres, word_timestamps, wpc, written>>
    /\ UNCHANGED <<dvars, nvars, rvars>>

\* utils.rs:49: WHISPER.store(false)
WhisperClear(i) ==
    /\ wtask[i] = "clear"
    /\ WHISPER' = FALSE
    /\ wtask' = [wtask EXCEPT ![i] = "done"]
    /\ UNCHANGED <<MERGE, mtask, click>>
    /\ UNCHANGED <<decode, tres, word_timestamps, wpc, written>>
    /\ UNCHANGED <<dvars, nvars, rvars>>

(***************************************************************************)
(* The merge thread, utils.rs:53-77, with merge (79-102) and to_mp4        *)
(* (104-118).  A step is "running" once its ffmpeg is spawned; its wait    *)
(* gives Ok with exit status zero ("ok") or non-zero ("nonzero"), or Err   *)
(* ("wait_failed"); a failed spawn is "spawn_failed".                      *)
(***************************************************************************)
MergeGoto(i, l) == mtask' = [mtask EXCEPT ![i].pc = l]

\* utils.rs:55: MERGE.store(true)
MergeStore(i) ==
    /\ mtask[i].pc = "store"
    /\ MERGE' = TRUE
    /\ MergeGoto(i, "paths")
    /\ UNCHANGED <<WHISPER, wtask, click>>
    /\ UNCHANGED <<decode, tres, word_timestamps, wpc, written>>
    /\ UNCHANGED <<dvars, nvars, rvars>>

\* utils.rs:56-60, 70: the three paths are Some and output and temp are
\* UTF-8, or a path is None (the else branch), or a to_str().unwrap() panics.
MergePaths(i) ==
    /\ mtask[i].pc = "paths"
    /\ \E l \in {"spawn1", "clear", "panicked"} : MergeGoto(i, l)
    /\ UNCHANGED <<WHISPER, MERGE, wtask, click>>
    /\ UNCHANGED <<decode, tres, word_timestamps, wpc, written>>
    /\ UNCHANGED <<dvars, nvars, rvars>>

\* utils.rs:62, 79-102: merge(audio.to_str().unwrap(), image.to_str().unwrap(),
\* temp): Command::new("ffmpeg")..spawn().unwrap() gives the child, or the
\* unwrap of a failed spawn panics, or a to_str().unwrap() panics before it.
MergeSpawn1(i) ==
    /\ mtask[i].pc = "spawn1"
    /\ \/ mtask' = [mtask EXCEPT ![i].pc = "wait1", ![i].step1 = "running"]
       \/ mtask' = [mtask EXCEPT ![i].pc = "panicked",
                                 ![i].step1 = "spawn_failed"]
       \/ MergeGoto(i, "panicked")
    /\ UNCHANGED <<WHISPER, MERGE, wtask, click>>
    /\ UNCHANGED <<decode, tres, word_timestamps, wpc, written>>
    /\ UNCHANGED <<dvars, nvars, rvars>>

\* utils.rs:62-65: if merge(..).wait().is_err() { MERGE.store(false); return; }
\* wait() is Err only when the wait itself fails: Ok(status) goes on to the
\* second step whatever the exit status.
MergeWait1(i) ==
    /\ mtask[i].pc = "wait1"
    /\ \/ \E st \in {"ok", "nonzero"} :
              mtask' = [mtask EXCEPT ![i].pc = "spawn2", ![i].step1 = st]
       \/ mtask' = [mtask EXCEPT ![i].pc = "clear", ![i].step1 = "wait_failed"]
    /\ UNCHANGED <<WHISPER, MERGE, wtask, click>>
    /\ UNCHANGED <<decode, tres, word_timestamps, wpc, written>>
    /\ UNCHANGED <<dvars, nvars, rvars>>

\* utils.rs:66, 104-118: to_mp4(subtitle.file_name().unwrap().to_str()
\* .unwrap(), output, temp): the child, or the unwrap of a failed spawn
\* panics, or an unwrap of the subtitle's name panics before it.
MergeSpawn2(i) ==
    /\ mtask[i].pc = "spawn2"
    /\ \/ mtask' = [mtask EXCEPT ![i].pc = "wait2", ![i].step2 = "running"]
       \/ mtask' = [mtask EXCEPT ![i].pc = "panicked",
                                 ![i].step2 = "spawn_failed"]
       \/ MergeGoto(i, "panicked")
    /\ UNCHANGED <<WHISPER, MERGE, wtask, click>>
    /\ UNCHANGED <<decode, tres, word_timestamps, wpc, written>>
    /\ UNCHANGED <<dvars, nvars, rvars>>

\* utils.rs:66-69, 75: if to_mp4(..).wait().is_err() { MERGE.store(false);
\* return; }, and the store after the if: both ways lead to a reset.
MergeWait2(i) ==
    /\ mtask[i].pc = "wait2"
    /\ \E st \in {"ok", "nonzero", "wait_failed"} :
          mtask' = [mtask EXCEPT ![i].pc = "clear", ![i].step2 = st]
    /\ UNCHANGED <<WHISPER, MERGE, wtask, click>>
    /\ UNCHANGED <<decode, tres, word_timestamps, wpc, written>>
    /\ UNCHANGED <<dvars, nvars, rvars>>

\* utils.rs:63-64, 67-68, 71-72, 75: MERGE.store(false), and the thread ends.
MergeClear(i) ==
    /\ mtask[i].pc = "clear"
    /\ MERGE' = FALSE
    /\ MergeGoto(i, "done")
    /\ UNCHANGED <<WHISPER, wtask, click>>
    /\ UNCHANGED <<decode, tres, word_timestamps, wpc, written>>
    /\ UNCHANGED <<dvars, nvars, rvars>>

WhisperTask(i) == WhisperStore(i) \/ WhisperBody(i) \/ WhisperClear(i)

MergeTask(i) ==
    \/ MergeStore(i) \/ MergePaths(i) \/ MergeSpawn1(i) \/ MergeWait1(i)
    \/ MergeSpawn2(i) \/ MergeWait2(i) \/ MergeClear(i)

(***************************************************************************)
(* Parked values of the groups a specification does not move.              *)
(***************************************************************************)
ParkDownload == InitDownload /\ InitNew

ParkTranscribe ==
    /\ decode = <<>>
    /\ tres = NoResult
    /\ word_timestamps = FALSE
    /\ wpc = "idle"
    /\ WHISPER = FALSE
    /\ written = [lrc |-> NoFile, srt |-> NoFile]

ParkRender ==
    /\ tr = EmptyTranscript
    /\ out = NoOutput

\* WHISPER is parked with the transcription group.
ParkUI ==
    /\ MERGE = FALSE
    /\ wtask = [i \in TaskIds |-> NotSpawned]
    /\ mtask = [i \in TaskIds |-> NoMerge]
    /\ click = NoClick

Init == InitDownload /\ InitNew /\ ParkTranscribe /\ ParkRender /\ ParkUI

Next ==
    \/ \E t \in SingleTask : Download(t)
    \/ \E t \in SingleTask : New(t)
    \/ Cancel

Spec == Init /\ [][Next]_vars

InitT == ParkDownload /\ InitTranscribe /\ ParkRender /\ ParkUI

NextT ==
    \/ TranscribeCall
    \/ TaskSpawn \/ TaskStore \/ TaskNew \/ TaskTranscribe
    \/ TaskWriteLrc \/ TaskWriteSrt \/ TaskClear

SpecTranscribe == InitT /\ [][NextT]_vars

InitR == ParkDownload /\ ParkTranscribe /\ InitRender /\ ParkUI

NextR == RenderLrc \/ RenderAsLrc \/ RenderSrt \/ RenderVtt

SpecRender == InitR /\ [][NextR]_vars

InitU == ParkDownload /\ ParkTranscribe /\ ParkRender /\ InitUI

NextU ==
    \/ ClickTranscribe
    \/ ClickMerge
    \/ \E i \in TaskIds : WhisperTask(i)
    \/ \E i \in TaskIds : MergeTask(i)

SpecUI == InitU /\ [][NextU]_vars

\* Two callers of Model::download at once, each making one call for a model
\* of its own, and no observer.
ModelOf == [t \in AllTasks |-> IF t = "t1" THEN "tiny" ELSE "base"]

CallOwn(t) == Call(t) /\ calls[t] = 0 /\ mdl'[t] = ModelOf[t]

DownloadOwn(t) ==
    \/ CallOwn(t) \/ Start(t) \/ StoreFlag(t) \/ Create(t) \/ Send(t)
    \/ StoreSize(t) \/ StoreZero(t) \/ StreamNext(t) \/ Check(t)
    \/ Consume(t) \/ LoadDownloaded(t) \/ LoadSize(t) \/ StoreNew(t)
    \/ ResetFlag(t) \/ ResetDownloaded(t) \/ ResetSize(t)

NextTwo == \E t \in AllTasks : DownloadOwn(t)

SpecTwo == Init /\ [][NextTwo]_vars

(***************************************************************************)
(* Claims about the model store, checked under Spec.                       *)
(***************************************************************************)
Errors == {"IoError", "NotConnected", "InvalidData"}

C1_Step ==
    \A t \in AllTasks :
        /\ (pc[t] = "check" /\ ~DOWNLOADING /\ pc'[t] # pc[t])
              => /\ pc'[t] = "reset_flag"
                 /\ site'[t] = "break"
                 /\ UNCHANGED <<fileLen, DOWNLOADED, FILE_SIZE, reqs>>
        /\ (site[t] = "break" /\ pc[t] # "done" /\ pc'[t] # pc[t])
              => /\ pc'[t] \in {"reset_done", "reset_size", "done"}
                 /\ result'[t] \in {"none", "Ok"}
                 /\ UNCHANGED <<fileLen, exists, reqs>>

C1_Returned ==
    \A t \in AllTasks :
        (pc[t] = "done" /\ site[t] = "break") => (result[t] = "Ok" /\ Idle)

\* C1: with a single download, when the flag is found cleared at the check
\* that follows the stream's next item (a chunk or an error), the download
\* leaves the loop without consuming the item, writes nothing more, returns
\* Ok(()) and the progress state is idle on return.
C1_Cancellation == [][C1_Step]_vars /\ []C1_Returned

\* C1's case: a download cancelled after a chunk was written, whose next item
\* was an error, has returned.
C1_Witness ==
    /\ pc["t1"] = "done" /\ site["t1"] = "break"
    /\ item["t1"].kind = "err" /\ fileLen[mdl["t1"]] > 0

C2_Step ==
    \A t \in AllTasks :
        (pc[t] = "start" /\ exists[mdl[t]] /\ pc'[t] # pc[t])
            => /\ pc'[t] = "done" /\ result'[t] = "Ok"
               /\ UNCHANGED <<DOWNLOADING, DOWNLOADED, FILE_SIZE,
                              exists, fileLen, reqs>>

\* C2: a call that finds the resolved path existing returns Ok(()) at once,
\* sends no request, leaves the file and the progress state as they are; no
\* model is ever requested twice.
C2_ExistingModel ==
    [][C2_Step]_vars /\ [](\A m \in Models : reqs[m] <= 1)

\* C2's case: the second call for a model whose download completed with
\* bytes written has returned at the existence check.
C2_Witness ==
    /\ pc["t1"] = "done" /\ site["t1"] = "exists" /\ calls["t1"] = 2
    /\ reqs[mdl["t1"]] = 1 /\ fileLen[mdl["t1"]] > 0

\* C3: every download attempt that ends in an error leaves the progress state
\* idle on return (DOWNLOADING = false, DOWNLOADED = 0, FILE_SIZE = !0).
C3_ErrorLeavesIdle ==
    \A t \in AllTasks :
        (pc[t] = "done" /\ result[t] \in Errors) => Idle

(***************************************************************************)
(* Reading a rendered text back: lines, fields and numbers.                *)
(***************************************************************************)
\* The pieces of s between the occurrences of character c.
SplitOn(s, c) ==
    LET cuts == {0} \cup {i \in 1..Len(s) : s[i] = c} \cup {Len(s) + 1}
        cut(k) == CHOOSE p \in cuts : Cardinality({q \in cuts : q < p}) = k
    IN  [k \in 1..(Cardinality(cuts) - 1) |->
            SubSeq(s, cut(k - 1) + 1, cut(k) - 1)]

Lines(text) == SplitOn(text, "\n")

IsDigit(c) == \E d \in 0..9 : DigitChars[d + 1] = c
DigitVal(c) == CHOOSE d \in 0..9 : DigitChars[d + 1] = c
IsNumber(ds) == ds # <<>> /\ \A i \in 1..Len(ds) : IsDigit(ds[i])

RECURSIVE ParseNat(_)
ParseNat(ds) ==
    IF ds = <<>> THEN 0
    ELSE ParseNat(SubSeq(ds, 1, Len(ds) - 1)) * 10 + DigitVal(ds[Len(ds)])

\* ds is the number n written in decimal, zero-padded to w digits.
Padded(ds, n, w) ==
    /\ IsNumber(ds) /\ ParseNat(ds) = n
    /\ Len(ds) >= w /\ (Len(ds) > w => ds[1] # "0")

\* r is text without its leading and trailing whitespace.
IsTrimOf(r, text) ==
    \E i \in 1..(Len(text) + 1) : \E j \in (i - 1)..Len(text) :
        /\ r = SubSeq(text, i, j)
        /\ \A k \in 1..(i - 1) : text[k] \in Whitespace
        /\ \A k \in (j + 1)..Len(text) : text[k] \in Whitespace
        /\ (i <= j => text[i] \notin Whitespace /\ text[j] \notin Whitespace)

\* The text as one string.
RECURSIVE Join(_)
Join(s) ==
    IF s = <<>> THEN ""
    ELSE IF Len(s) = 1 THEN s[1]
    ELSE Join(SubSeq(s, 1, Len(s) \div 2))
             \o Join(SubSeq(s, Len(s) \div 2 + 1, Len(s)))

\* HH:MM:SS,mmm of t, the fields computed as section 4.3 of the
\* specification gives them.
SrtShape(str, t) ==
    LET a == SplitOn(str, ":")
    IN  /\ Len(a) = 3
        /\ Padded(a[1], t \div 360000, 2)
        /\ Padded(a[2], (t \div 6000) % 60, 2)
        /\ LET b == SplitOn(a[3], ",")
           IN  /\ Len(b) = 2
               /\ Padded(b[1], (t \div 100) % 60, 2)
               /\ Padded(b[2], (t % 100) * 10, 3)

\* MM:SS.mmm of t, no hours field, the minutes not reduced.
VttShape(str, t) ==
    LET a == SplitOn(str, ":")
    IN  /\ Len(a) = 2
        /\ Padded(a[1], t \div 6000, 2)
        /\ LET b == SplitOn(a[2], ".")
           IN  /\ Len(b) = 2
               /\ Padded(b[1], (t \div 100) % 60, 2)
               /\ Padded(b[2], (t % 100) * 10, 3)

\* [MM:SS.CC] of t.
LrcShape(str, t) ==
    /\ Len(str) >= 2 /\ str[1] = "[" /\ str[Len(str)] = "]"
    /\ LET a == SplitOn(SubSeq(str, 2, Len(str) - 1), ":")
       IN  /\ Len(a) = 2
           /\ Padded(a[1], t \div 6000, 2)
           /\ LET b == SplitOn(a[2], ".")
              IN  /\ Len(b) = 2
                  /\ Padded(b[1], (t \div 100) % 60, 2)
                  /\ Padded(b[2], t % 100, 2)

\* The time, in centiseconds, that the numeric fields of a time code give.
SrtValue(str) ==
    LET a == SplitOn(str, ":")
        b == SplitOn(a[3], ",")
    IN  ParseNat(a[1]) * 360000 + ParseNat(a[2]) * 6000
            + ParseNat(b[1]) * 100 + ParseNat(b[2]) \div 10

VttValue(str) ==
    LET a == SplitOn(str, ":")
        b == SplitOn(a[2], ".")
    IN  ParseNat(a[1]) * 6000 + ParseNat(b[1]) * 100 + ParseNat(b[2]) \div 10

\* The code between the first "[" and the first "]" of an LRC line.
LrcCode(line) ==
    LET close == CHOOSE i \in 1..Len(line) :
                     line[i] = "]" /\ \A j \in 1..(i - 1) : line[j] # "]"
    IN  SubSeq(line, 2, close - 1)

LrcValue(line) ==
    LET a == SplitOn(LrcCode(line), ":")
        b == SplitOn(a[2], ".")
    IN  ParseNat(a[1]) * 6000 + ParseNat(b[1]) * 100 + ParseNat(b[2])

\* start --> end, each side of the given shape.
IsSrtTiming(line, f) ==
    LET parts == SplitOn(line, " ")
    IN  /\ Len(parts) = 3
        /\ parts[2] = <<"-", "-", ">">>
        /\ SrtShape(parts[1], f.start)
        /\ SrtShape(parts[3], f.end)

IsVttTiming(line, f) ==
    LET parts == SplitOn(line, " ")
    IN  /\ Len(parts) = 3
        /\ parts[2] = <<"-", "-", ">">>
        /\ VttShape(parts[1], f.start)
        /\ VttShape(parts[3], f.end)

InDay(t) == 0 <= t /\ t < 8640000

Example ==
    [utterances |-> <<Utterance(65, 325, <<" ", "h", "e", "l", "l", "o", " ">>)>>,
     word_utterances |-> None]

(***************************************************************************)
(* Claims about transcribe and the transcription task, checked under       *)
(* SpecTranscribe.                                                         *)
(***************************************************************************)
IsControl(text) == Len(text) >= 2 /\ text[1] = "[" /\ text[2] = "_"
NotControlToken(tok) == ~IsControl(tok.text)

\* The tokens of a decode, segment after segment.
RECURSIVE AllTokens(_)
AllTokens(d) == IF d = <<>> THEN <<>> ELSE Head(d).tokens \o AllTokens(Tail(d))

TextsOf(l) == [i \in 1..Len(l) |-> l[i].text]

\* C4: with word_timestamps = true, no element of the returned
\* word_utterances has a text starting with "[_", and the texts of
\* word_utterances are exactly the texts of the decode's tokens that do not
\* start with "[_".
C4_ControlTokensSkipped ==
    (tres.kind = "Ok" /\ tres.transcript.word_utterances.some)
        => LET words == tres.transcript.word_utterances.list
           IN  /\ \A i \in 1..Len(words) : ~IsControl(words[i].text)
               /\ TextsOf(words) =
                      TextsOf(SelectSeq(AllTokens(decode), NotControlToken))

\* C4's case: a segment whose only token is a control token, then a segment
\* whose only token starts with a bracket but not with the marker.
C4_Witness ==
    /\ tres.kind = "Ok" /\ tres.transcript.word_utterances.some
    /\ Len(decode) = 2
    /\ TextsOf(decode[1].tokens) = << <<"[", "_", "B", "E", "G", "_", "]">> >>
    /\ TextsOf(decode[2].tokens) = << <<"[", "x", "_">> >>
    /\ Len(tres.transcript.word_utterances.list) = 1

\* C5: a decode of zero segments makes transcribe return an error, never an
\* empty Transcript, and the task writes a subtitle file only after
\* transcribe returned Ok.
C5_NoSegmentsNoFiles ==
    /\ tres.kind = "Ok"
          => Len(decode) > 0 /\ Len(tres.transcript.utterances) > 0
    /\ (Len(decode) = 0 /\ tres.kind # "none"
            /\ tres.at \notin {"read_file", "create_state", "full", "n_segments"})
          => tres = Err("no_segments")
    /\ (written.lrc.some \/ written.srt.some)
          => tres.kind = "Ok" /\ wpc \in {"write_srt", "clear", "done", "panicked"}
    /\ Len(decode) = 0 => ~written.lrc.some /\ ~written.srt.some

\* C5's case: the task ran to its end over a decode of zero segments.
C5_Witness ==
    /\ wpc = "done" /\ Len(decode) = 0 /\ tres = Err("no_segments")
    /\ ~written.lrc.some /\ ~written.srt.some

(***************************************************************************)
(* Claims about the renderers, checked under SpecRender.                   *)
(***************************************************************************)
\* C6: to_srt emits one cue per fragment of the rendered list, and the k-th
\* cue carries the number k; nothing is emitted for an empty list.
C6_CueNumbers ==
    out.fmt = "srt"
        => LET lines == Lines(out.text)
               n == Len(Fragments(tr))
           IN  /\ Len(lines) = 4 * n + 1
               /\ n = 0 => out.text = <<>>
               /\ \A k \in 1..n :
                     /\ Padded(lines[4 * k - 3], k, 1)
                     /\ Len(SplitOn(lines[4 * k - 2], " ")) = 3
                     /\ SplitOn(lines[4 * k - 2], " ")[2] = <<"-", "-", ">">>
                     /\ lines[4 * k] = <<>>

\* C6's case: a list of word utterances of two fragments rendered as SRT.
C6_Witness ==
    /\ out.fmt = "srt" /\ tr.word_utterances.some
    /\ Len(tr.word_utterances.list) >= 2 /\ Len(tr.utterances) = 1

\* C7: for t in [0, 8640000) the numeric fields each renderer emits give t
\* back: SRT h*360000 + m*6000 + s*100 + ms/10, VTT m*6000 + s*100 + ms/10,
\* LRC m*6000 + s*100 + cs.
C7_TimeRoundTrip ==
    LET frags == Fragments(tr)
        lines == Lines(out.text)
    IN  \A k \in 1..Len(frags) :
          /\ out.fmt = "srt" =>
                LET parts == SplitOn(lines[4 * k - 2], " ")
                IN  /\ InDay(frags[k].start) => SrtValue(parts[1]) = frags[k].start
                    /\ InDay(frags[k].end) => SrtValue(parts[3]) = frags[k].end
          /\ out.fmt = "vtt" =>
                LET parts == SplitOn(lines[3 * k], " ")
                IN  /\ InDay(frags[k].start) => VttValue(parts[1]) = frags[k].start
                    /\ InDay(frags[k].end) => VttValue(parts[3]) = frags[k].end
          /\ out.fmt = "lrc" =>
                /\ InDay(frags[k].start) => LrcValue(lines[2 * k - 1]) = frags[k].start
                /\ InDay(frags[k].end) => LrcValue(lines[2 * k]) = frags[k].end

\* C7's case: a time past the first hour with a fraction, rendered as VTT.
C7_Witness ==
    /\ out.fmt = "vtt" /\ Len(Fragments(tr)) = 1
    /\ Fragments(tr)[1].start = 23 * 360000 + 59 * 6000 + 7 * 100 + 65

\* C8: the SRT timing line of a fragment with non-negative start and end is
\* HH:MM:SS,mmm --> HH:MM:SS,mmm with the fields of section 4.3, followed by
\* the trimmed text and a blank line; the example renders as given.
C8_SrtFormat ==
    out.fmt = "srt"
        => LET lines == Lines(out.text)
               frags == Fragments(tr)
           IN  /\ \A k \in 1..Len(frags) :
                     (frags[k].start >= 0 /\ frags[k].end >= 0)
                        => /\ IsSrtTiming(lines[4 * k - 2], frags[k])
                           /\ IsTrimOf(lines[4 * k - 1], frags[k].text)
                           /\ lines[4 * k] = <<>>
               /\ tr = Example
                     => Join(out.text)
                          = "1\n00:00:00,650 --> 00:00:03,250\nhello\n\n"

\* C8's case: the example utterance rendered as SRT.
C8_Witness == out.fmt = "srt" /\ tr = Example

\* C9: to_vtt starts with WEBVTT and a blank line, and has per fragment
\* MM:SS.mmm --> MM:SS.mmm (no hours, minutes = t/6000), the line "- " plus
\* the trimmed text, and a blank line; the example renders as given.
C9_VttFormat ==
    out.fmt = "vtt"
        => LET lines == Lines(out.text)
               frags == Fragments(tr)
           IN  /\ Len(lines) = 3 * Len(frags) + 3
               /\ lines[1] = <<"W", "E", "B", "V", "T", "T">>
               /\ lines[2] = <<>>
               /\ \A k \in 1..Len(frags) :
                     /\ IsVttTiming(lines[3 * k], frags[k])
                     /\ Len(lines[3 * k + 1]) >= 2
                     /\ SubSeq(lines[3 * k + 1], 1, 2) = <<"-", " ">>
                     /\ IsTrimOf(SubSeq(lines[3 * k + 1], 3,
                                        Len(lines[3 * k + 1])), frags[k].text)
                     /\ lines[3 * k + 2] = <<>>
               /\ tr = Example
                     => Join(out.text)
                          = "WEBVTT\n\n00:00.650 --> 00:03.250\n- hello\n\n"

\* C9's case: two fragments, the later one past the first hour, as VTT.
C9_Witness ==
    /\ out.fmt = "vtt" /\ Len(Fragments(tr)) = 2
    /\ Fragments(tr)[2].end = 8639999

\* C10: each LRC renderer emits per fragment two lines: the bare timestamp
\* [MM:SS.CC] of the start, then the same timestamp followed by the trimmed
\* text; the end is not emitted.
C10_LrcTwoLines ==
    out.fmt \in {"lrc", "as_lrc"}
        => LET lines == Lines(out.text)
               frags == Fragments(tr)
           IN  /\ Len(lines) = 2 * Len(frags) + 1
               /\ \A k \in 1..Len(frags) :
                     LET bare == lines[2 * k - 1]
                         full == lines[2 * k]
                     IN  /\ LrcShape(bare, frags[k].start)
                         /\ Len(full) >= Len(bare)
                         /\ SubSeq(full, 1, Len(bare)) = bare
                         /\ IsTrimOf(SubSeq(full, Len(bare) + 1, Len(full)),
                                     frags[k].text)

\* C11: in every Transcript transcribe returns, a present word_utterances is
\* non-empty whenever utterances is non-empty, also when every token is a
\* control token or the segments have no tokens.
C11_WordsNonEmpty ==
    (tres.kind = "Ok" /\ tres.transcript.word_utterances.some
        /\ Len(tres.transcript.utterances) > 0)
        => Len(tres.transcript.word_utterances.list) > 0

\* The utterance of a segment and of a token.
SegmentUtterance(seg) == [text |-> seg.text, start |-> seg.start, end |-> seg.end]
TokenUtterance(tok) == [text |-> tok.text, start |-> tok.t0, end |-> tok.t1]

\* The surviving tokens of segments 1..n of a decode, segment after segment
\* and in token order within a segment.
SurvivingUpTo(d, n) ==
    LET RECURSIVE Upto(_)
        Upto(k) == IF k = 0 THEN <<>>
                   ELSE Upto(k - 1) \o SelectSeq(d[k].tokens, NotControlToken)
    IN  Upto(n)

\* C12: a successful transcribe over a decode of n segments returns n
\* utterances, the i-th carrying segment i's text, start and end; with
\* word_timestamps = true word_utterances is the surviving tokens in segment
\* order and then token order; with word_timestamps = false it is absent.
C12_SegmentOrder ==
    tres.kind = "Ok"
        => LET t == tres.transcript
               n == Len(decode)
           IN  /\ Len(t.utterances) = n
               /\ \A i \in 1..n : t.utterances[i] = SegmentUtterance(decode[i])
               /\ t.word_utterances.some = word_timestamps
               /\ word_timestamps =>
                     LET words == t.word_utterances.list
                         all == SurvivingUpTo(decode, n)
                     IN  /\ Len(words) = Len(all)
                         /\ \A k \in 1..Len(all) :
                               words[k] = TokenUtterance(all[k])
                         /\ \A i \in 1..n :
                               SubSeq(words,
                                      Len(SurvivingUpTo(decode, i - 1)) + 1,
                                      Len(SurvivingUpTo(decode, i)))
                                 = [k \in 1..Len(SelectSeq(decode[i].tokens,
                                                           NotControlToken)) |->
                                      TokenUtterance(SelectSeq(decode[i].tokens,
                                                        NotControlToken)[k])]

\* C12's case: a call with word_timestamps = true over two segments, each
\* with a control token and a word, has returned.
C12_Witness ==
    /\ tres.kind = "Ok" /\ word_timestamps /\ Len(decode) = 2
    /\ \A i \in 1..2 : /\ Len(decode[i].tokens) = 2
                       /\ IsControl(decode[i].tokens[1].text)
                       /\ ~IsControl(decode[i].tokens[2].text)
    /\ Len(tres.transcript.word_utterances.list) = 2

\* C13: every failure point of transcribe (state creation, the decode, the
\* segment count, segment and token extraction, zero segments) reaches the
\* caller as an Err result; none ends the calling task by a panic.
C13_FailuresReturned ==
    /\ tres.kind \in {"none", "Ok", "Err"}
    /\ tres.at # "none" => tres.kind = "Err"

(***************************************************************************)
(* Further claims about the model store, checked under Spec.               *)
(***************************************************************************)
\* C14: when the response carries no content length, the download returns an
\* error result to its caller; it does not panic and does not stream with an
\* unknown total.
C14_SizeUnavailable ==
    \A t \in AllTasks :
        /\ (pc[t] = "done" /\ site[t] = "size") => result[t] \in Errors
        /\ result[t] # "panic"
        /\ pc[t] \in {"store_zero", "next", "check", "consume", "load", "min",
                      "store_new"} => resp[t].some

\* C15: with at most one download running, DOWNLOADED <= FILE_SIZE in every
\* state an observer can see, for every sequence of chunk lengths; each chunk
\* advances DOWNLOADED by min(chunk length, FILE_SIZE - DOWNLOADED).
C15_Clamp == DOWNLOADED <= FILE_SIZE

\* The flag is cleared and the download holds no chunk whose check passed.
C20_Late(t) ==
    ~DOWNLOADING /\ pc[t] \in {"next", "check", "load", "min", "store_new"}

C20_Step ==
    /\ fileLen' # fileLen
          => \E t \in AllTasks :
                 /\ pc[t] = "consume" /\ item[t].kind = "chunk"
                 /\ pc'[t] = "load"
    /\ \A t \in AllTasks :
          /\ (pc[t] = "next" /\ yielded'[t] # yielded[t]) => pc'[t] = "check"
          /\ (pc'[t] = "consume" /\ pc[t] # "consume")
                => pc[t] = "check" /\ DOWNLOADING
          /\ (~DOWNLOADING /\ pc[t] = "consume" /\ pc'[t] # pc[t])
                => pc'[t] \in {"load", "done"}
          /\ (C20_Late(t) /\ pc'[t] # pc[t])
                => /\ fileLen' = fileLen
                   /\ DOWNLOADED' # DOWNLOADED => pc[t] = "store_new"
                   /\ C20_Late(t)' \/ pc'[t] = "reset_flag"

\* C20: with a single download, every item that arrives is followed by a
\* check of the flag, and a chunk is written only after its check found the
\* flag set; once the flag is cleared, the chunk whose check had passed may
\* still be written and counted, and from then on the download writes and
\* counts no chunk until it leaves the loop: at most one chunk is written
\* after a cancellation request.
C20_OneChunkAfterCancel == [][C20_Step]_vars

\* C20's case: the observer cleared the flag after the check of the second
\* chunk had passed, and that chunk has been written.
C20_Witness ==
    /\ pc["t1"] = "load" /\ ~DOWNLOADING
    /\ yielded["t1"] = 2 /\ fileLen[mdl["t1"]] > item["t1"].len

(***************************************************************************)
(* Further claims about the renderers, checked under SpecRender.           *)
(***************************************************************************)
\* The list the claim names: word_utterances when present, else utterances.
C16_Chosen == IF tr.word_utterances.some THEN tr.word_utterances.list
              ELSE tr.utterances

\* The text that follows the first "]" of an LRC line.
C16_AfterCode(line) == SubSeq(line, Len(LrcCode(line)) + 3, Len(line))

\* C16: to_lrc, to_srt and to_vtt render one list per call, word_utterances
\* when it is present (no cue at all when it is present and empty, whatever
\* utterances holds), otherwise utterances: the output has as many cues as
\* the chosen list has elements, and the k-th cue carries the times and the
\* text of the chosen list's k-th element.
C16_OneList ==
    LET lines == Lines(out.text)
        n == Len(C16_Chosen)
    IN  /\ out.fmt = "lrc" =>
              /\ Len(lines) = 2 * n + 1
              /\ \A k \in 1..n :
                    /\ LrcShape(<<"[">> \o LrcCode(lines[2 * k - 1]) \o <<"]">>,
                                C16_Chosen[k].start)
                    /\ IsTrimOf(C16_AfterCode(lines[2 * k - 1]),
                                C16_Chosen[k].text)
                    /\ LrcShape(lines[2 * k], C16_Chosen[k].end)
        /\ out.fmt = "srt" =>
              /\ Len(lines) = 4 * n + 1
              /\ \A k \in 1..n :
                    /\ IsSrtTiming(lines[4 * k - 2], C16_Chosen[k])
                    /\ IsTrimOf(lines[4 * k - 1], C16_Chosen[k].text)
        /\ out.fmt = "vtt" =>
              /\ Len(lines) = 3 * n + 3
              /\ \A k \in 1..n :
                    /\ IsVttTiming(lines[3 * k], C16_Chosen[k])
                    /\ IsTrimOf(SubSeq(lines[3 * k + 1], 3,
                                       Len(lines[3 * k + 1])),
                                C16_Chosen[k].text)
        /\ (out.fmt \in {"lrc", "srt"} /\ n = 0) => out.text = <<>>
        /\ (out.fmt = "vtt" /\ n = 0)
              => out.text = <<"W", "E", "B", "V", "T", "T", "\n", "\n">>

\* C16's case: a Transcript whose word_utterances is present and empty and
\* whose utterances holds two fragments has been rendered as WebVTT.
C16_Witness ==
    /\ out.fmt = "vtt"
    /\ tr.word_utterances.some /\ tr.word_utterances.list = <<>>
    /\ Len(tr.utterances) = 2

(***************************************************************************)
(* Claims about the triggers and the merge thread, checked under SpecUI.   *)
(***************************************************************************)
\* A click on the given trigger is handled in this step.
C17_Click(b) == click'.n # click.n /\ click'.button = b

C17_Step ==
    /\ (C17_Click("whisper") /\ WHISPER)
          => /\ ~click'.spawned
             /\ UNCHANGED <<WHISPER, MERGE, wtask, mtask>>
             /\ UNCHANGED <<dvars, nvars, rvars, decode, tres, word_timestamps,
                            wpc, written>>
    /\ (C17_Click("merge") /\ MERGE)
          => /\ ~click'.spawned
             /\ UNCHANGED <<WHISPER, MERGE, wtask, mtask>>
             /\ UNCHANGED <<dvars, nvars, rvars, decode, tres, word_timestamps,
                            wpc, written>>
    /\ (C17_Click("whisper") /\ ~WHISPER)
          => /\ click'.spawned
             /\ \E i \in TaskIds : wtask[i] = NotSpawned /\ wtask'[i] = "store"
             /\ UNCHANGED <<MERGE, mtask>>
    /\ (C17_Click("merge") /\ ~MERGE)
          => /\ click'.spawned
             /\ \E i \in TaskIds :
                    mtask[i].pc = NotSpawned /\ mtask'[i].pc = "store"
             /\ UNCHANGED <<WHISPER, wtask>>

\* C17: a click on the transcribe trigger while WHISPER is set, or on the
\* merge trigger while MERGE is set, spawns no task and changes no state; a
\* click on a trigger whose own flag is clear spawns its task whatever the
\* other flag holds.
C17_BusyClickIsNoOp == [][C17_Step]_vars

\* C17's case: the first click spawned the transcription task, a second click
\* on the same trigger found WHISPER set and did nothing, and a click on the
\* merge trigger, with WHISPER still set, spawned the merge thread.
C17_Witness ==
    /\ click = [n |-> 3, button |-> "merge", spawned |-> TRUE]
    /\ WHISPER /\ wtask[1] = "body" /\ wtask[2] = NotSpawned
    /\ mtask[1].pc = "store" /\ mtask[2].pc = NotSpawned

\* C18: the second ffmpeg step starts only after the first has terminated
\* successfully; when the first step fails (its spawn, its wait, or a
\* non-zero exit status) the second is never started.
C18_StepsInOrder ==
    \A i \in TaskIds :
        /\ mtask[i].step2 # NoStep => mtask[i].step1 = "ok"
        /\ mtask[i].pc \in {"spawn2", "wait2"} => mtask[i].step1 = "ok"

\* C19: a merge thread that has set MERGE and has ended has reset it, on
\* every outcome; when no merge thread is running MERGE is false.
C19_MergeReset ==
    /\ \A i \in TaskIds : mtask[i].pc # "panicked"
    /\ (\A i \in TaskIds : mtask[i].pc \in {NotSpawned, "done", "panicked"})
          => ~MERGE

(***************************************************************************)
(* Claims about the model file across calls, checked under Spec.           *)
(***************************************************************************)
\* The call of t is past the existence check and has not returned.
C21_InAttempt(t) ==
    pc[t] \in {"store_flag", "create", "send", "store_size", "store_zero",
               "next", "check", "consume", "load", "min", "store_new",
               "reset_flag", "reset_done", "reset_size"}

\* C21 as stated: after any download attempt that got past the existence
\* check, the path exists.
C21_PathExistsAfterAttempt ==
    \A t \in AllTasks :
        (pc[t] = "done" /\ site[t] \notin {"none", "exists"})
            => exists[mdl[t]]

C21_Kept ==
    \A t \in AllTasks :
        /\ (pc[t] \in {"send", "store_size", "store_zero", "next", "check",
                       "consume", "load", "min", "store_new", "reset_flag",
                       "reset_done", "reset_size"}
             \/ (pc[t] = "done"
                   /\ site[t] \in {"send", "size", "break", "item", "write",
                                   "end"}))
              => exists[mdl[t]]
        /\ (pc[t] = "done" /\ ctx[t].call = calls[t] /\ result[t] = "Ok")
              => /\ ctx[t].len = fileLen[mdl[t]]
                 /\ ctx[t].result \in {"Ok", "InvalidData"}

C21_Step ==
    /\ \A m \in Models :
          /\ exists[m] => exists'[m]
          /\ reqs'[m] # reqs[m] => exists[m]
          /\ (exists[m] /\ ~\E t \in AllTasks : mdl[t] = m /\ C21_InAttempt(t))
                => fileLen'[m] = fileLen[m] /\ reqs'[m] = reqs[m]
    /\ \A t \in AllTasks :
          ctx'[t] # ctx[t]
              => /\ pc[t] = "done" /\ UNCHANGED dvars
                 /\ result[t] = "Ok" => ctx'[t].len = fileLen[mdl[t]]

\* C21, amended: the file is created before the request is sent, so after
\* any attempt in which the file was created (cancelled, failed at connect,
\* failed mid-stream, completed) the path exists and stays; no later call for
\* that model sends a request or changes the file, and Whisper::new loads the
\* file as it is, be it empty or truncated.
C21_FileKept == [][C21_Step]_vars /\ []C21_Kept

\* C21's case: the first attempt failed at connect and left an empty file;
\* the second call for the model returned Ok at the existence check and
\* Whisper::new went on to load the empty file.
C21_Witness ==
    /\ calls["t1"] = 2 /\ pc["t1"] = "done" /\ site["t1"] = "exists"
    /\ reqs[mdl["t1"]] = 1 /\ fileLen[mdl["t1"]] = 0
    /\ ctx["t1"] = [call |-> 2, len |-> 0, result |-> "InvalidData"]

(***************************************************************************)
(* Further claims about the triggers, checked under SpecUI.                *)
(***************************************************************************)
\* The tasks of each kind that are spawned and have not ended.
C22_WhisperInFlight == {i \in TaskIds : wtask[i] \in {"store", "body", "clear"}}
C22_MergeInFlight ==
    {i \in TaskIds : mtask[i].pc \notin {NotSpawned, "done", "panicked"}}

\* C22: for every sequence of clicks at most one transcription task and at
\* most one merge task is in flight: no second task of a kind is spawned
\* between the spawn of the first and the moment it clears its flag.
C22_SingleFlight ==
    /\ Cardinality(C22_WhisperInFlight) <= 1
    /\ Cardinality(C22_MergeInFlight) <= 1

(***************************************************************************)
(* Claims about concurrent downloads, checked under SpecTwo.               *)
(***************************************************************************)
\* C23: with no observer requesting cancellation, two downloads for
\* different models running at once on the shared flag and counters each
\* leave the loop only when their own stream has ended: neither returns
\* Ok(()) from the break with items of its stream unread.
C23_NoEarlyStop ==
    \A t \in AllTasks :
        /\ site[t] # "break"
        /\ (pc[t] = "done" /\ result[t] = "Ok") => site[t] = "end"

====
